---- MODULE Spec2Model ----
(***************************************************************************)
(* Model of the rebellion simulation engine of src/model.py: the classes   *)
(* Agent and Cop and the public methods of RebellionManager (setup, go,    *)
(* update_government_legitimacy, update_max_jail_term,                     *)
(* update_movement_enabled).                                               *)
(*                                                                         *)
(* Numbers.  Python floats are modelled as scaled integers:                *)
(*   densities            in percent            (25.0  -> 25)              *)
(*   vision               in tenths             (1.0   -> 10)              *)
(*   government legitimacy in hundredths        (0.82  -> 82)              *)
(*   perceived hardship, risk aversion and probabilities in 1/10000        *)
(* An argument of a public method is a record [t |-> type, v |-> value]    *)
(* so that the isinstance checks of the validation can be modelled.        *)
(* A random draw is a nondeterministic choice.                             *)
(* An exception that leaves a public method is recorded in err; when it    *)
(* is raised after the method has started to change the engine, pc keeps   *)
(* the place where it was raised and the run ends there (the repository    *)
(* has no handler, main() lines 612-627).                                  *)
(***************************************************************************)
EXTENDS Integers, Sequences, FiniteSets, TLC

VARIABLES
    tick,                   \* self._tick
    num_rows,               \* self._num_rows
    num_cols,               \* self._num_cols
    coord_turtles,          \* self._coord_turtles : cell -> list of turtles
    turtle_coords,          \* self._turtle_coords : turtle -> cell
    report,                 \* self._report
    num_cops,               \* self._num_cops
    num_agents,             \* self._num_agents
    vision,                 \* self._vision
    government_legitimacy,  \* self._government_legitimacy
    max_jail_term,          \* self._max_jail_term
    movement_enabled,       \* self._movement_enabled
    coord_neighbours,       \* self._coord_neighbours : cell -> list of cells
    perceived_hardship,     \* Agent.perceived_hardship, per agent
    risk_aversion,          \* Agent.risk_aversion, per agent
    active,                 \* Agent.active, per agent
    jail_term,              \* Agent.jail_term, per agent
    Agent_num_agents,       \* class counter Agent.num_agents
    Cop_numCops,            \* class counter Cop.numCops
    shuffled_turtle_coords, \* go: the part of the shuffled list still to visit
    shift_perceived_hardship, \* go: argument
    aggregate_greivance,    \* go: argument
    pc,                     \* position: "idle" between calls, else inside a call
    err,                    \* exception raised by the last call, "none" if it returned
    go_calls,               \* number of go calls started since the last setup
    arresting               \* cops that relocated for an arrest in the current go call

engine == <<tick, num_rows, num_cols, coord_turtles, turtle_coords, report,
            num_cops, num_agents, vision, government_legitimacy, max_jail_term,
            movement_enabled, coord_neighbours, perceived_hardship,
            risk_aversion, active, jail_term, Agent_num_agents, Cop_numCops>>

vars == <<tick, num_rows, num_cols, coord_turtles, turtle_coords, report,
          num_cops, num_agents, vision, government_legitimacy, max_jail_term,
          movement_enabled, coord_neighbours, perceived_hardship,
          risk_aversion, active, jail_term, Agent_num_agents, Cop_numCops,
          shuffled_turtle_coords, shift_perceived_hardship,
          aggregate_greivance, pc, err, go_calls, arresting>>

---------------------------------------------------------------------------
(* Bounds of the model.                                                    *)

\* go is not started once the tick counter has reached MaxTick
MaxTick == 2

\* SpecStuck: go is not started once the tick counter has reached MaxLongRun
MaxLongRun == 3

\* SpecTopology: the grids have up to MaxSide rows and MaxSide columns
MaxSide == 4

\* SpecAgain: setup is not called once the class counters have handed out
\* more than MaxTurtleId identifiers
MaxTurtleId == 3

---------------------------------------------------------------------------
(* Program constants.                                                      *)

\* THRESHOLD = 0.1, in 1/10000
THRESHOLD == 1000

\* an attribute that has not been assigned yet
NoAttr == 0 - 1
Unset == [t |-> "unset", v |-> NoAttr]

PyFloat(x) == [t |-> "float", v |-> x]
PyInt(x) == [t |-> "int", v |-> x]
PyBool(b) == [t |-> "bool", v |-> IF b THEN 1 ELSE 0]
PyStr == [t |-> "str", v |-> 0]

\* Python truth value of an object
Truthy(x) == x.v # 0

Max(a, b) == IF a >= b THEN a ELSE b
Min(a, b) == IF a <= b THEN a ELSE b
Abs(a) == IF a >= 0 THEN a ELSE 0 - a

RECURSIVE SumSeq(_)
SumSeq(s) == IF s = <<>> THEN 0 ELSE Head(s) + SumSeq(Tail(s))

Range(s) == {s[i] : i \in 1..Len(s)}

---------------------------------------------------------------------------
(* Turtles.                                                                *)

Agent(id) == [kind |-> "Agent", id |-> id]
Cop(id) == [kind |-> "Cop", id |-> id]
IsAgent(t) == t.kind = "Agent"
IsCop(t) == t.kind = "Cop"

Turtles == DOMAIN turtle_coords
Agents == {t \in Turtles : IsAgent(t)}
Cops == {t \in Turtles : IsCop(t)}

---------------------------------------------------------------------------
(* Validation.                                                             *)

\* isinstance(value, expected_type); bool is a subclass of int
IsInstance(value, expected_type) ==
    \/ value.t = expected_type
    \/ expected_type = "int" /\ value.t = "bool"

\* __validate_value without the upper end of the range of line 90
validate_value_no_max(value, expected_type, min_value, max_value) ==
    IF ~IsInstance(value, expected_type) THEN "TypeError"
    ELSE IF ~(min_value <= value.v) THEN "ValueError"
    ELSE "none"

\* __validate_value: the exception it raises, "none" when it returns
validate_value(value, expected_type, min_value, max_value) ==
    IF ~IsInstance(value, expected_type) THEN "TypeError"
    ELSE IF ~(min_value <= value.v /\ value.v <= max_value) THEN "ValueError"
    ELSE "none"

\* the first exception of a list of checks run one after the other
RECURSIVE FirstError(_)
FirstError(checks) ==
    IF checks = <<>> THEN "none"
    ELSE IF Head(checks) # "none" THEN Head(checks)
    ELSE FirstError(Tail(checks))

\* __validate_parameters
validate_parameters(initial_cop_density, initial_agent_density, vis, gl, mjt, me) ==
    FirstError(<<
        validate_value(initial_cop_density, "float", 0, 100),
        validate_value(initial_agent_density, "int", 0, 100),
        validate_value(vis, "float", 0, 70),
        validate_value(gl, "float", 0, 100),
        validate_value(mjt, "int", 0, 50),
        IF ~IsInstance(me, "bool") THEN "TypeError" ELSE "none",
        IF initial_cop_density.v + initial_agent_density.v > 100
            THEN "ValueError" ELSE "none" >>)

---------------------------------------------------------------------------
(* Topology.                                                               *)

\* the cells in the order of the nested loops over rows and columns
AllCoords(R, C) == [k \in 1..(R * C) |-> <<(k - 1) \div C, (k - 1) % C>>]

Cells == (0..(num_rows - 1)) \X (0..(num_cols - 1))

\* distance with the wrap taken as the way forward round the torus
distance_forward(source, target, R, C) ==
    LET dx == (target[1] - source[1]) % R
        dy == (target[2] - source[2]) % C
    IN dx * dx + dy * dy

\* distance without the wrap adjustment of lines 261-264
distance_flat(source, target, R, C) ==
    LET dx == Abs(source[1] - target[1])
        dy == Abs(source[2] - target[2])
    IN dx * dx + dy * dy

\* distance(source, target) of __init_coord_neighbours, squared: the cell
\* centres differ by whole numbers, so sqrt(d) <= vision is d <= vision^2
distance(source, target, R, C) ==
    LET dx0 == Abs(source[1] - target[1])
        dy0 == Abs(source[2] - target[2])
        dx == IF 2 * dx0 > R THEN R - dx0 ELSE dx0
        dy == IF 2 * dy0 > C THEN C - dy0 ELSE dy0
    IN dx * dx + dy * dy

\* __init_coord_neighbours with "<" for the "<=" of line 280
init_coord_neighbours_strict(R, C, vis) ==
    [coord \in (0..(R - 1)) \X (0..(C - 1)) |->
        LET InRadius(other) == 100 * distance(coord, other, R, C) < vis * vis
        IN SelectSeq(AllCoords(R, C), InRadius)]

\* __init_coord_neighbours leaving the cell itself out of its list
init_coord_neighbours_others(R, C, vis) ==
    [coord \in (0..(R - 1)) \X (0..(C - 1)) |->
        LET InRadius(other) ==
                /\ other # coord
                /\ 100 * distance(coord, other, R, C) <= vis * vis
        IN SelectSeq(AllCoords(R, C), InRadius)]

\* __init_coord_neighbours: cell -> list of the cells within vis (tenths)
init_coord_neighbours(R, C, vis) ==
    [coord \in (0..(R - 1)) \X (0..(C - 1)) |->
        LET InRadius(other) == 100 * distance(coord, other, R, C) <= vis * vis
        IN SelectSeq(AllCoords(R, C), InRadius)]

---------------------------------------------------------------------------
(* setup.                                                                  *)

\* Python's round(n / d) for d > 0: to the nearest whole number, halves to
\* the even one.  For every density in 0..100 and every grid of up to 4 x 4
\* cells the float product density * 0.01 * rows * cols rounds to this value.
round(n, d) ==
    LET q == n \div d
        r == n % d
    IN IF 2 * r < d THEN q
       ELSE IF 2 * r > d THEN q + 1
       ELSE IF q % 2 = 0 THEN q ELSE q + 1

\* list.pop(index), index counted from 0: the list without that element
Pop(list, index) ==
    [k \in 1..(Len(list) - 1) |-> IF k <= index THEN list[k] ELSE list[k + 1]]

\* the cells that n rounds of randrange(len(available_patches)) and
\* available_patches.pop(index) can draw, in the order drawn
RECURSIVE Draws(_, _)
Draws(available_patches, n) ==
    IF n = 0 THEN {<<>>}
    ELSE UNION {{<<available_patches[index + 1]>> \o rest :
                    rest \in Draws(Pop(available_patches, index), n - 1)} :
                index \in 0..(Len(available_patches) - 1)}

\* the pairs <<perceived_hardship, risk_aversion>> that the two
\* random.random() calls of Agent.__init__ draw here, in 1/10000
AgentDraws == {<<9600, 0>>, <<9600, 9000>>, <<5000, 9000>>}

\* the perceived hardships after the shift of lines 229-240: agent k, placed
\* on spots[k], moves a tenth of the way to the mean hardship of the agents
\* placed before it on its neighbour cells (0 when there are none)
RECURSIVE setup_hardship(_, _, _, _)
setup_hardship(nb, spots, drawn, done) ==
    IF Len(done) = Len(drawn) THEN done
    ELSE LET k == Len(done) + 1
             near == {j \in 1..Len(done) : spots[j] \in Range(nb[spots[k]])}
             neighbour_hardships == [j \in 1..Len(done) |->
                                        IF j \in near THEN done[j] ELSE 0]
             mean == IF near = {} THEN 0
                     ELSE SumSeq(neighbour_hardships) \div Cardinality(near)
         IN setup_hardship(nb, spots, drawn,
                Append(done, drawn[k] + ((mean - drawn[k]) \div 10)))

\* setup(initial_cop_density, initial_agent_density, vision,
\*       government_legitimacy, max_jail_term, movement_enabled,
\*       aggregate_greivance)
setup(icd, iad, vis, gl, mjt, me, ag) ==
    /\ pc = "idle"
    /\ LET verdict == validate_parameters(icd, iad, vis, gl, mjt, me) IN
       IF verdict # "none"
       THEN /\ err' = verdict
            /\ UNCHANGED <<engine, shuffled_turtle_coords,
                           shift_perceived_hardship, aggregate_greivance,
                           pc, go_calls, arresting>>
       ELSE
         LET cells == num_rows * num_cols
             nc == round(icd.v * cells, 100)
             na == round(iad.v * cells, 100)
             \* agents created before available_patches runs empty
             made == Min(na, cells - nc)
             nb == init_coord_neighbours(num_rows, num_cols, vis.v)
         IN
         /\ tick' = 0
         /\ num_cops' = nc
         /\ num_agents' = na
         /\ vision' = vis
         /\ government_legitimacy' = gl
         /\ max_jail_term' = mjt
         /\ movement_enabled' = me
         /\ coord_neighbours' = nb
         /\ Cop_numCops' = Cop_numCops + nc
         /\ Agent_num_agents' = Agent_num_agents + made
         /\ go_calls' = 0
         /\ arresting' = {}
         /\ UNCHANGED <<num_rows, num_cols, shuffled_turtle_coords,
                        shift_perceived_hardship, aggregate_greivance>>
         /\ IF nc + na > cells
            \* randrange(0) raises ValueError: the report is not written
            THEN /\ pc' = "setup"
                 /\ err' = "ValueError"
                 /\ UNCHANGED report
            ELSE /\ pc' = "idle"
                 /\ err' = "none"
                 /\ report' = <<[tick |-> 0, quiet |-> na,
                                 jailed |-> 0, active |-> 0]>>
         /\ \E spots \in Draws(AllCoords(num_rows, num_cols), nc + made) :
            \E drawn \in [1..made -> AgentDraws] :
              LET cop(k) == Cop(Cop_numCops + k - 1)
                  agent(k) == Agent(Agent_num_agents + k - 1)
                  turtle(k) == IF k <= nc THEN cop(k) ELSE agent(k - nc)
                  agent_spots == [k \in 1..made |-> spots[nc + k]]
                  hs == [k \in 1..made |-> drawn[k][1]]
                  hard == IF ag THEN setup_hardship(nb, agent_spots, hs, <<>>)
                          ELSE hs
                  new_agents == {agent(k) : k \in 1..made}
                  index(a) == a.id - Agent_num_agents + 1
              IN
              /\ coord_turtles' =
                    [c \in Cells |->
                        IF \E k \in 1..(nc + made) : spots[k] = c
                        THEN <<turtle(CHOOSE k \in 1..(nc + made) : spots[k] = c)>>
                        ELSE <<>>]
              /\ turtle_coords' =
                    [t \in {turtle(k) : k \in 1..(nc + made)} |->
                        spots[CHOOSE k \in 1..(nc + made) : turtle(k) = t]]
              /\ perceived_hardship' = [a \in new_agents |-> hard[index(a)]]
              /\ risk_aversion' = [a \in new_agents |-> drawn[index(a)][2]]
              /\ active' = [a \in new_agents |-> FALSE]
              /\ jail_term' = [a \in new_agents |-> 0]

---------------------------------------------------------------------------
(* go.                                                                     *)

\* the orders random.shuffle can give to the elements of a finite set
Shuffles(S) ==
    {order \in [1..Cardinality(S) -> S] :
        \A i, j \in 1..Cardinality(S) : order[i] = order[j] => i = j}

\* the (turtle, coordinate) pair whose turn it is
turn == Head(shuffled_turtle_coords)

\* go(mute, shift_perceived_hardship, aggregate_greivance), lines 323-325:
\* the snapshot of the turtle coordinates, shuffled.  mute only selects the
\* printing of the grid, which changes nothing; before the first setup go
\* is called with mute = True.
go(shift, agg) ==
    /\ pc = "idle"
    /\ \E order \in Shuffles({<<t, turtle_coords[t]>> : t \in Turtles}) :
          shuffled_turtle_coords' = order
    /\ shift_perceived_hardship' = shift
    /\ aggregate_greivance' = agg
    /\ pc' = IF Turtles = {} THEN "end" ELSE "move"
    /\ err' = "none"
    /\ go_calls' = go_calls + 1
    /\ arresting' = {}
    /\ UNCHANGED engine

\* one step of the loop of go is over: the next turtle, or the end of the tick
NextTurn ==
    /\ shuffled_turtle_coords' = Tail(shuffled_turtle_coords)
    /\ pc' = IF Tail(shuffled_turtle_coords) = <<>> THEN "end" ELSE "move"

\* __move_turtle: both views after the turtle went from source to destination
move_turtle(turtle, source, destination) ==
    LET added == [coord_turtles EXCEPT ![destination] = Append(@, turtle)]
        Other(c) == c # turtle
    IN [coord_turtles |-> [added EXCEPT ![source] = SelectSeq(@, Other)],
        turtle_coords |-> [turtle_coords EXCEPT ![turtle] = destination]]

\* __move, lines 403-419: the neighbour cells of coord that are empty or
\* hold only jailed agents
targets(coord) ==
    LET valid_square(c) ==
            \A i \in 1..Len(coord_turtles[c]) :
                /\ IsAgent(coord_turtles[c][i])
                /\ jail_term[coord_turtles[c][i]] # 0
    IN SelectSeq(coord_neighbours[coord], valid_square)

\* the test of line 329 without the test of movement_enabled of line 400
moves_unasked(turtle) ==
    (IsAgent(turtle) /\ jail_term[turtle] = 0) \/ IsCop(turtle)

\* whether go runs Rule M for the turtle (line 329) and __move lets it move
\* (line 400)
moves(turtle) ==
    /\ (IsAgent(turtle) /\ jail_term[turtle] = 0) \/ IsCop(turtle)
    /\ Truthy(movement_enabled) \/ IsCop(turtle)

\* Rule M for the turtle whose turn it is, lines 328-330 and __move
RuleM ==
    /\ pc = "move"
    /\ LET turtle == turn[1]
           coord == turn[2]
       IN IF moves(turtle) /\ targets(coord) # <<>>
          THEN \E destination \in Range(targets(coord)) :
                  LET moved == move_turtle(turtle, coord, destination)
                  IN /\ coord_turtles' = moved.coord_turtles
                     /\ turtle_coords' = moved.turtle_coords
          ELSE UNCHANGED <<coord_turtles, turtle_coords>>
    /\ pc' = "act"
    /\ UNCHANGED <<tick, num_rows, num_cols, report, num_cops, num_agents,
                   vision, government_legitimacy, max_jail_term,
                   movement_enabled, coord_neighbours, perceived_hardship,
                   risk_aversion, active, jail_term, Agent_num_agents,
                   Cop_numCops, shuffled_turtle_coords,
                   shift_perceived_hardship, aggregate_greivance, err,
                   go_calls, arresting>>

\* the turtles met by the loops "for neighbour_coord in
\* self._coord_neighbours[coord]: for neighbour in
\* self._coord_turtles[neighbour_coord]", in that order
neighbours(coord) ==
    LET RECURSIVE Flat(_)
        Flat(cs) == IF cs = <<>> THEN <<>>
                    ELSE coord_turtles[Head(cs)] \o Flat(Tail(cs))
    IN Flat(coord_neighbours[coord])

\* 1 - math.exp(-K * n) with K = 2.3, in 1/10000
estimated_arrest_probability(n) ==
    CASE n = 0 -> 0
      [] n = 1 -> 8997
      [] n = 2 -> 9899
      [] n = 3 -> 9990
      [] n = 4 -> 9999
      [] OTHER -> 10000

\* lines 445-452: the perceived hardship after the optional shift
shifted_hardship(turtle) ==
    IF shift_perceived_hardship
    THEN LET h == perceived_hardship[turtle]
                  + ((perceived_hardship[turtle] - 5000) \div 10)
         IN IF h < 0 THEN 0 ELSE IF h > 10000 THEN 10000 ELSE h
    ELSE perceived_hardship[turtle]

\* line 464 divides by zero: the aggregate has no agent to average
no_neighbour_grievances(turtle) ==
    /\ aggregate_greivance
    /\ Len(SelectSeq(neighbours(turtle_coords[turtle]), IsAgent)) = 0

\* lines 454-467: the grievance in 1/1000000, the agent's hardship already
\* shifted
grievance(turtle) ==
    LET hardship(n) == IF n = turtle THEN shifted_hardship(turtle)
                       ELSE perceived_hardship[n]
        seen == SelectSeq(neighbours(turtle_coords[turtle]), IsAgent)
        neighbour_grievances ==
            [i \in 1..Len(seen) |->
                hardship(seen[i]) * (100 - government_legitimacy.v)]
    IN IF aggregate_greivance
       THEN SumSeq(neighbour_grievances) \div Len(seen)
       ELSE shifted_hardship(turtle) * (100 - government_legitimacy.v)

\* lines 470-477: the number of cops in vision
cops_in_vision(turtle) ==
    Len(SelectSeq(neighbours(turtle_coords[turtle]), IsCop))

\* the count of line 476 that leaves out the agent itself
active_in_vision_others(turtle) ==
    LET IsActive(n) == IsAgent(n) /\ active[n] /\ n # turtle
    IN 1 + Len(SelectSeq(neighbours(turtle_coords[turtle]), IsActive))

\* lines 471-477: 1 + the number of active agents in vision
active_in_vision(turtle) ==
    LET IsActive(n) == IsAgent(n) /\ active[n]
    IN 1 + Len(SelectSeq(neighbours(turtle_coords[turtle]), IsActive))

\* __determine_behaviour, lines 479-481: the returned value
determine_behaviour(turtle) ==
    LET p == estimated_arrest_probability(
                cops_in_vision(turtle) \div active_in_vision(turtle))
    IN grievance(turtle) * 100 - risk_aversion[turtle] * p > THRESHOLD * 10000

\* Rule A for the turtle whose turn it is, lines 332-334
RuleA ==
    /\ pc = "act"
    /\ IsAgent(turn[1])
    /\ LET turtle == turn[1] IN
       IF jail_term[turtle] # 0
       THEN /\ NextTurn
            /\ UNCHANGED <<perceived_hardship, active, err>>
       ELSE /\ perceived_hardship' =
                  [perceived_hardship EXCEPT ![turtle] = shifted_hardship(turtle)]
            /\ IF no_neighbour_grievances(turtle)
               THEN /\ err' = "ZeroDivisionError"
                    /\ UNCHANGED <<active, shuffled_turtle_coords, pc>>
               ELSE /\ active' = [active EXCEPT ![turtle] = determine_behaviour(turtle)]
                    /\ NextTurn
                    /\ UNCHANGED err
    /\ UNCHANGED <<tick, num_rows, num_cols, coord_turtles, turtle_coords,
                   report, num_cops, num_agents, vision, government_legitimacy,
                   max_jail_term, movement_enabled, coord_neighbours,
                   risk_aversion, jail_term, Agent_num_agents, Cop_numCops,
                   shift_perceived_hardship, aggregate_greivance, go_calls,
                   arresting>>

\* the suspects without the test "and neighbour.active" of line 499
suspects_any(coord) ==
    UNION {{<<coord_turtles[c][i], c>> :
                i \in {k \in 1..Len(coord_turtles[c]) :
                          IsAgent(coord_turtles[c][k])}} :
           c \in Range(coord_neighbours[coord])}

\* __enforce, lines 494-500: the active agents on the neighbour cells of
\* coord, each with its cell
suspects(coord) ==
    UNION {{<<coord_turtles[c][i], c>> :
                i \in {k \in 1..Len(coord_turtles[c]) :
                          /\ IsAgent(coord_turtles[c][k])
                          /\ active[coord_turtles[c][k]]}} :
           c \in Range(coord_neighbours[coord])}

\* random.randint(0, n) in the place of random.randrange(n)
randrange_inclusive(n) == 0..n

\* random.randrange(n): the values it can return; none when n = 0, where it
\* raises ValueError
randrange(n) == 0..(n - 1)

\* Rule C for the turtle whose turn it is, lines 336-338 and __enforce
RuleC ==
    /\ pc = "act"
    /\ IsCop(turn[1])
    /\ LET turtle == turn[1]
           coord == turtle_coords[turtle]
       IN IF suspects(coord) = {}
          THEN /\ NextTurn
               /\ UNCHANGED <<coord_turtles, turtle_coords, active, jail_term,
                              err, arresting>>
          ELSE \E choice \in suspects(coord) :
                  LET suspect == choice[1]
                      suspect_coord == choice[2]
                      moved == move_turtle(turtle, coord, suspect_coord)
                  IN /\ coord_turtles' = moved.coord_turtles
                     /\ turtle_coords' = moved.turtle_coords
                     /\ active' = [active EXCEPT ![suspect] = FALSE]
                     /\ arresting' = arresting \cup {turtle}
                     /\ IF randrange(max_jail_term.v) = {}
                        THEN /\ err' = "ValueError"
                             /\ UNCHANGED <<jail_term, shuffled_turtle_coords, pc>>
                        ELSE /\ \E term \in randrange(max_jail_term.v) :
                                  jail_term' = [jail_term EXCEPT ![suspect] = term]
                             /\ NextTurn
                             /\ UNCHANGED err
    /\ UNCHANGED <<tick, num_rows, num_cols, report, num_cops, num_agents,
                   vision, government_legitimacy, max_jail_term,
                   movement_enabled, coord_neighbours, perceived_hardship,
                   risk_aversion, Agent_num_agents, Cop_numCops,
                   shift_perceived_hardship, aggregate_greivance, go_calls>>

\* the tally with "if" for the "elif" of line 357: a jailed agent is counted
\* as quiet too
tally_if(t, term, act) ==
    LET jailed == Cardinality({a \in DOMAIN term : term[a] # 0})
        rebels == Cardinality({a \in DOMAIN term : act[a]})
        quiet == Cardinality({a \in DOMAIN term : ~act[a]})
    IN [tick |-> t, quiet |-> quiet, jailed |-> jailed, active |-> rebels]

\* lines 349-362: the record of the tick
tally(t, term, act) ==
    LET jailed == Cardinality({a \in DOMAIN term : term[a] # 0})
        rebels == Cardinality({a \in DOMAIN term : term[a] = 0 /\ act[a]})
        quiet == Cardinality({a \in DOMAIN term : term[a] = 0 /\ ~act[a]})
    IN [tick |-> t, quiet |-> quiet, jailed |-> jailed, active |-> rebels]

\* the decrement of line 344 without max(0, ...)
reduced_unfloored(term) == [a \in DOMAIN term |-> term[a] - 1]

\* lines 340-344: the jail terms after the end of the tick
reduced(term) == [a \in DOMAIN term |-> Max(0, term[a] - 1)]

\* the end of go, lines 340-362
EndOfTick ==
    /\ pc = "end"
    /\ jail_term' = reduced(jail_term)
    /\ tick' = tick + 1
    /\ report' = Append(report, tally(tick + 1, reduced(jail_term), active))
    /\ pc' = "idle"
    /\ shift_perceived_hardship' = FALSE
    /\ aggregate_greivance' = FALSE
    /\ UNCHANGED <<num_rows, num_cols, coord_turtles, turtle_coords, num_cops,
                   num_agents, vision, government_legitimacy, max_jail_term,
                   movement_enabled, coord_neighbours, perceived_hardship,
                   risk_aversion, active, Agent_num_agents, Cop_numCops,
                   shuffled_turtle_coords, err, go_calls, arresting>>

---------------------------------------------------------------------------
(* The mutators.                                                           *)

\* what a mutator leaves alone besides the parameter it sets
NotUpdated ==
    UNCHANGED <<tick, num_rows, num_cols, coord_turtles, turtle_coords, report,
                num_cops, num_agents, vision, coord_neighbours,
                perceived_hardship, risk_aversion, active, jail_term,
                Agent_num_agents, Cop_numCops, shuffled_turtle_coords,
                shift_perceived_hardship, aggregate_greivance, pc, go_calls,
                arresting>>

update_government_legitimacy(gl) ==
    /\ pc = "idle"
    /\ err' = validate_value(gl, "float", 0, 100)
    /\ government_legitimacy' =
          IF validate_value(gl, "float", 0, 100) = "none" THEN gl
          ELSE government_legitimacy
    /\ UNCHANGED <<max_jail_term, movement_enabled>>
    /\ NotUpdated

update_max_jail_term(mjt) ==
    /\ pc = "idle"
    /\ err' = validate_value(mjt, "int", 0, 50)
    /\ max_jail_term' =
          IF validate_value(mjt, "int", 0, 50) = "none" THEN mjt
          ELSE max_jail_term
    /\ UNCHANGED <<government_legitimacy, movement_enabled>>
    /\ NotUpdated

update_movement_enabled(me) ==
    /\ pc = "idle"
    /\ err' = IF IsInstance(me, "bool") THEN "none" ELSE "TypeError"
    /\ movement_enabled' = IF IsInstance(me, "bool") THEN me ELSE movement_enabled
    /\ UNCHANGED <<government_legitimacy, max_jail_term>>
    /\ NotUpdated

---------------------------------------------------------------------------
(* The engine on a small grid, driven through every public method.         *)

\* RebellionManager.__init__(max_pxcor, max_pycor), lines 148-157
Constructed(max_pxcor, max_pycor) ==
    /\ tick = 0
    /\ num_rows = max_pycor + 1
    /\ num_cols = max_pxcor + 1
    /\ coord_turtles = [c \in (0..max_pycor) \X (0..max_pxcor) |-> <<>>]
    /\ turtle_coords = <<>>
    /\ report = <<>>
    /\ num_cops = NoAttr
    /\ num_agents = NoAttr
    /\ vision = Unset
    /\ government_legitimacy = Unset
    /\ max_jail_term = Unset
    /\ movement_enabled = Unset
    /\ coord_neighbours = <<>>
    /\ perceived_hardship = <<>>
    /\ risk_aversion = <<>>
    /\ active = <<>>
    /\ jail_term = <<>>
    /\ Agent_num_agents = 0
    /\ Cop_numCops = 0
    /\ shuffled_turtle_coords = <<>>
    /\ shift_perceived_hardship = FALSE
    /\ aggregate_greivance = FALSE
    /\ pc = "idle"
    /\ err = "none"
    /\ go_calls = 0
    /\ arresting = {}

\* Spec: a 1 x 3 grid, one setup that places one cop and two agents, and
\* then go and update_max_jail_term in any order.
Init == Constructed(2, 0)

CopDensities == {PyFloat(33)}
AgentDensities == {PyInt(67)}
Visions == {PyFloat(0), PyFloat(10)}
Legitimacies == {PyFloat(82)}
JailTerms == {PyInt(0), PyInt(1), PyInt(3)}
Movements == {PyBool(FALSE), PyBool(TRUE)}

Setup ==
    /\ vision = Unset
    /\ \E icd \in CopDensities, iad \in AgentDensities, vis \in Visions,
          gl \in Legitimacies, mjt \in JailTerms, me \in Movements :
            setup(icd, iad, vis, gl, mjt, me, FALSE)

Go ==
    /\ tick < MaxTick
    /\ \E shift \in BOOLEAN, agg \in BOOLEAN : go(shift, agg)

UpdateMaxJailTerm == \E mjt \in JailTerms : update_max_jail_term(mjt)

Next ==
    \/ Setup
    \/ Go
    \/ RuleM
    \/ RuleA
    \/ RuleC
    \/ EndOfTick
    \/ UpdateMaxJailTerm

Spec == Init /\ [][Next]_vars

\* SpecCrowd: a 2 x 2 grid filled by two cops and two agents.
InitCrowd == Constructed(1, 1)

SetupCrowd ==
    /\ vision = Unset
    /\ \E mjt \in {PyInt(1), PyInt(2)} :
          setup(PyFloat(50), PyInt(50), PyFloat(10), PyFloat(82), mjt,
                PyBool(FALSE), FALSE)

GoCrowd ==
    /\ tick < MaxTick
    /\ go(FALSE, FALSE)

NextCrowd ==
    \/ SetupCrowd
    \/ GoCrowd
    \/ RuleM
    \/ RuleA
    \/ RuleC
    \/ EndOfTick

SpecCrowd == InitCrowd /\ [][NextCrowd]_vars

\* SpecStuck: the 2 x 2 grid of SpecCrowd with max_jail_term 3, run for
\* MaxLongRun ticks: a cop can be hemmed in for several ticks.
InitStuck == Constructed(1, 1)

SetupStuck ==
    /\ vision = Unset
    /\ setup(PyFloat(50), PyInt(50), PyFloat(10), PyFloat(82), PyInt(3),
             PyBool(FALSE), FALSE)

GoStuck ==
    /\ tick < MaxLongRun
    /\ go(FALSE, FALSE)

NextStuck ==
    \/ SetupStuck
    \/ GoStuck
    \/ RuleM
    \/ RuleA
    \/ RuleC
    \/ EndOfTick

SpecStuck == InitStuck /\ [][NextStuck]_vars

\* SpecSetup: grids of 1 x 3 and of 2 x 2 cells; setup and the three
\* mutators with arguments inside and outside their declared types and
\* ranges; one accepted setup on a fresh engine, refused ones at any time.
InitSetup == Constructed(2, 0) \/ Constructed(1, 1)

\* arguments of setup that pass the validation
GoodSetupArgs ==
    {<<d[1], d[2], PyFloat(10), PyFloat(82), PyInt(3), PyBool(TRUE), d[3]>> :
        d \in {<<PyFloat(0), PyInt(25), FALSE>>,
               <<PyFloat(25), PyInt(25), FALSE>>,
               <<PyFloat(25), PyInt(50), TRUE>>,
               <<PyFloat(50), PyInt(50), FALSE>>}}

\* one good call of setup
Usual == <<PyFloat(25), PyInt(50), PyFloat(10), PyFloat(82), PyInt(3),
           PyBool(TRUE), FALSE>>

\* the call with argument number i replaced by x
With(args, i, x) == [args EXCEPT ![i] = x]

\* arguments of setup with one or two arguments wrong
BadSetupArgs ==
    {With(Usual, 1, x) : x \in {PyInt(25), PyFloat(101)}}
    \cup {With(Usual, 2, x) : x \in {PyFloat(50), PyInt(0 - 1)}}
    \cup {With(Usual, 3, x) : x \in {PyInt(1), PyFloat(71)}}
    \cup {With(Usual, 4, x) : x \in {PyStr, PyFloat(101)}}
    \cup {With(Usual, 5, x) : x \in {PyFloat(3), PyInt(51)}}
    \cup {With(Usual, 6, x) : x \in {PyInt(1)}}
    \cup {With(Usual, 2, PyInt(76)),
          With(With(Usual, 2, PyInt(76)), 6, PyInt(1)),
          With(With(Usual, 1, PyFloat(101)), 2, PyFloat(50))}

LegitimaciesAny == {PyFloat(50), PyFloat(101), PyInt(1)}
JailTermsAny == {PyBool(TRUE), PyInt(51), PyFloat(3)}
MovementsAny == {PyBool(FALSE), PyInt(1)}

Call(args) ==
    setup(args[1], args[2], args[3], args[4], args[5], args[6], args[7])

SetupAny ==
    /\ vision = Unset
    /\ \E args \in GoodSetupArgs : Call(args)

SetupRefused == \E args \in BadSetupArgs : Call(args)

UpdateGovernmentLegitimacy ==
    \E gl \in LegitimaciesAny : update_government_legitimacy(gl)

UpdateMaxJailTermAny == \E mjt \in JailTermsAny : update_max_jail_term(mjt)

UpdateMovementEnabled ==
    \E me \in MovementsAny : update_movement_enabled(me)

NextSetup ==
    \/ SetupAny
    \/ SetupRefused
    \/ UpdateGovernmentLegitimacy
    \/ UpdateMaxJailTermAny
    \/ UpdateMovementEnabled

SpecSetup == InitSetup /\ [][NextSetup]_vars

\* SpecTopology: every grid of up to MaxSide x MaxSide cells without
\* turtles, set up with each vision of Radii, again and again.
InitTopology ==
    \E max_pxcor \in 0..(MaxSide - 1), max_pycor \in 0..(MaxSide - 1) :
        Constructed(max_pxcor, max_pycor)

Radii == {PyFloat(0), PyFloat(5), PyFloat(10), PyFloat(14), PyFloat(15),
          PyFloat(20), PyFloat(22), PyFloat(30)}

SetupTopology ==
    \E vis \in Radii :
        setup(PyFloat(0), PyInt(0), vis, PyFloat(82), PyInt(3), PyBool(TRUE),
              FALSE)

GoTopology ==
    /\ tick < MaxTick
    /\ go(FALSE, FALSE)

UpdateTopology ==
    \/ \E gl \in Legitimacies : update_government_legitimacy(gl)
    \/ \E mjt \in JailTerms : update_max_jail_term(mjt)
    \/ \E me \in Movements : update_movement_enabled(me)

NextTopology == SetupTopology \/ GoTopology \/ EndOfTick \/ UpdateTopology

SpecTopology == InitTopology /\ [][NextTopology]_vars

\* SpecAgain: a 1 x 3 grid on which setup is called again with the same
\* arguments, directly or after ticks, as long as the class counters are
\* small; every setup places one cop and two agents.
InitAgain == Constructed(2, 0)

AgainArgs == <<PyFloat(33), PyInt(67), PyFloat(0), PyFloat(82), PyInt(3),
               PyBool(FALSE), FALSE>>

SetupAgain ==
    /\ Cop_numCops + Agent_num_agents <= MaxTurtleId
    /\ Call(AgainArgs)

GoAgain ==
    /\ vision # Unset
    /\ tick < MaxTick
    /\ go(FALSE, FALSE)

NextAgain ==
    \/ SetupAgain
    \/ GoAgain
    \/ RuleM
    \/ RuleA
    \/ RuleC
    \/ EndOfTick

SpecAgain == InitAgain /\ [][NextAgain]_vars

---------------------------------------------------------------------------
(* Properties.                                                             *)

\* how often the turtle stands in the occupant list of the cell
Occurrences(t, c) ==
    Cardinality({i \in 1..Len(coord_turtles[c]) : coord_turtles[c][i] = t})

\* C1: between operations the cell -> occupants view and the occupant ->
\* cell view are mutual inverses: every turtle is listed exactly once, in
\* the cell the occupant -> cell view records for it, and in no other cell;
\* the lists hold nothing else.
C1_ViewsInverse ==
    pc = "idle" =>
        /\ \A t \in Turtles : \A c \in Cells :
              Occurrences(t, c) = IF c = turtle_coords[t] THEN 1 ELSE 0
        /\ \A c \in Cells : Range(coord_turtles[c]) \subseteq Turtles

\* an actor that is not in jail
Free(t) == IsCop(t) \/ jail_term[t] = 0

\* C2: at any time, tick boundaries included, no cell holds two actors that
\* are not in jail, not counting the cops that went to a suspect's cell to
\* make an arrest during the current tick.
C2_OneFreeActorPerCell ==
    \A c \in Cells :
        Cardinality({i \in 1..Len(coord_turtles[c]) :
                        /\ Free(coord_turtles[c][i])
                        /\ coord_turtles[c][i] \notin arresting}) <= 1

\* C3: in every report record quiet + jailed + active is the number of
\* agents that setup created.
C3_RecordsCountEveryAgent ==
    \A k \in 1..Len(report) :
        report[k].quiet + report[k].jailed + report[k].active
            = Cardinality(Agents)

\* a record with a jailed agent and an active one
C3_MixedRecord ==
    \E k \in 1..Len(report) : report[k].jailed >= 1 /\ report[k].active >= 1

\* C4: after a setup and N calls of go, each returned or raised, the report
\* holds N + 1 records and the record at index k carries tick k.
C4_OneRecordPerGo ==
    (vision # Unset /\ pc # "setup" /\ (pc = "idle" \/ err # "none")) =>
        /\ Len(report) = go_calls + 1
        /\ \A k \in 1..Len(report) : report[k].tick = k - 1

\* C5: no jail term is ever negative; the end of every tick takes 1 from
\* every positive jail term, the one of an agent arrested in that tick
\* included, and leaves 0 at 0; no other step changes a positive jail term.
C5_JailTermCountsDown ==
    [][\A a \in DOMAIN jail_term' :
          /\ jail_term'[a] >= 0
          /\ a \in DOMAIN jail_term =>
                IF pc = "end" /\ pc' = "idle"
                THEN jail_term'[a] =
                        IF jail_term[a] > 0 THEN jail_term[a] - 1 ELSE 0
                ELSE jail_term[a] > 0 => jail_term'[a] = jail_term[a]]_vars

\* the end of a tick has just released an agent that the end of the tick
\* before had left in jail
C5_Released ==
    /\ pc = "idle"
    /\ Len(report) >= 2
    /\ report[Len(report)].jailed < report[Len(report) - 1].jailed

\* the calls of setup that SpecSetup makes
SetupCalls == GoodSetupArgs \cup BadSetupArgs

\* C6: setup with validated arguments, on any grid, places
\* round(density% x cells) cops and as many agents as the agent density
\* asks for, every one alone on its cell, sets the tick to 0 and leaves a
\* single tick-0 record that counts every agent as quiet.
C6_SetupPlacesPopulation ==
    [][\A args \in SetupCalls :
          (/\ validate_parameters(args[1], args[2], args[3], args[4],
                                  args[5], args[6]) = "none"
           /\ Call(args)) =>
              LET cells == num_rows * num_cols
                  nc == round(args[1].v * cells, 100)
                  na == round(args[2].v * cells, 100)
              IN /\ err' = "none"
                 /\ Cardinality({t \in DOMAIN turtle_coords' : IsCop(t)}) = nc
                 /\ Cardinality({t \in DOMAIN turtle_coords' : IsAgent(t)}) = na
                 /\ \A t \in DOMAIN turtle_coords' :
                       coord_turtles'[turtle_coords'[t]] = <<t>>
                 /\ tick' = 0
                 /\ report' = <<[tick |-> 0, quiet |-> na,
                                 jailed |-> 0, active |-> 0]>>]_vars

\* the value has the type: a Python bool is an int as well
OfType(value, type) == value.t = type \/ (type = "int" /\ value.t = "bool")

\* the value has the declared type and lies in the declared range
Declared(value, type, low, high) ==
    OfType(value, type) /\ low <= value.v /\ value.v <= high

\* every argument of the call of setup has its declared type
WellTyped(args) ==
    /\ OfType(args[1], "float")
    /\ OfType(args[2], "int")
    /\ OfType(args[3], "float")
    /\ OfType(args[4], "float")
    /\ OfType(args[5], "int")
    /\ OfType(args[6], "bool")

\* every argument of the call of setup lies in its declared range
InRange(args) ==
    /\ 0 <= args[1].v /\ args[1].v <= 100
    /\ 0 <= args[2].v /\ args[2].v <= 100
    /\ 0 <= args[3].v /\ args[3].v <= 70
    /\ 0 <= args[4].v /\ args[4].v <= 100
    /\ 0 <= args[5].v /\ args[5].v <= 50

\* the call is refused: it raises and the engine is as it was
Refused == err' \in {"TypeError", "ValueError"} /\ UNCHANGED engine

\* C7: a call of setup or of an update_* method with an argument outside
\* its declared type or range, or a setup whose densities add up to more
\* than 100, raises and leaves the whole engine unchanged; a setup whose
\* only individual fault is a wrong type raises TypeError even when the
\* densities add up to more than 100, the sum being checked last.
C7_RefusedCallsChangeNothing ==
    [][/\ \A args \in SetupCalls :
             (~(/\ WellTyped(args)
                /\ InRange(args)
                /\ args[1].v + args[2].v <= 100) /\ Call(args)) => Refused
       /\ \A args \in SetupCalls :
             (~WellTyped(args) /\ InRange(args) /\ Call(args))
                 => err' = "TypeError"
       /\ \A gl \in LegitimaciesAny :
             (~Declared(gl, "float", 0, 100)
              /\ update_government_legitimacy(gl)) => Refused
       /\ \A mjt \in JailTermsAny :
             (~Declared(mjt, "int", 0, 50)
              /\ update_max_jail_term(mjt)) => Refused
       /\ \A me \in MovementsAny :
             (~OfType(me, "bool") /\ update_movement_enabled(me))
                 => Refused]_vars

\* a call was refused on an engine that holds turtles
C7_RefusedAfterSetup ==
    /\ pc = "idle"
    /\ err \in {"TypeError", "ValueError"}
    /\ Cardinality(Turtles) >= 2
    /\ Len(report) = 1

\* C8: the neighbour relation is symmetric: a cell is in the neighbour list
\* of another exactly when the other is in its own.
C8_NeighboursSymmetric ==
    vision # Unset =>
        \A a \in Cells : \A b \in Cells :
            (b \in Range(coord_neighbours[a]))
                <=> (a \in Range(coord_neighbours[b]))

\* a grid of 4 x 3 cells where a cell sees across the edge and not everywhere
C8_AcrossTheEdge ==
    /\ num_rows = 4
    /\ num_cols = 3
    /\ vision.v = 10
    /\ <<3, 0>> \in Range(coord_neighbours[<<0, 0>>])
    /\ <<2, 0>> \notin Range(coord_neighbours[<<0, 0>>])

\* C9: while max_jail_term is 1 and no agent is in jail, no step puts an
\* agent in jail and no appended record counts a jailed agent: an arrest
\* only makes the agent inactive.  setup leaves no agent in jail, so with
\* max_jail_term 1 from setup on no state has a jailed agent.
C9_UnitJailTermNeverJails ==
    [][(max_jail_term.v = 1 /\ \A a \in Agents : jail_term[a] = 0) =>
          /\ \A a \in DOMAIN jail_term' : jail_term'[a] = 0
          /\ Len(report') > Len(report) =>
                report'[Len(report')].jailed = 0]_vars

\* a cop has made an arrest in a call of go that runs with max_jail_term 1
C9_Arrested ==
    /\ max_jail_term.v = 1
    /\ arresting # {}
    /\ pc \in {"move", "act", "end"}
    /\ err = "none"

\* C10: with vision 0 the neighbour list of every cell is the cell itself;
\* no step of go relocates an agent or a cop, and an agent a cop arrests
\* stands in the cop's own cell.
C10_VisionZero ==
    [][/\ vision'.v = 0 =>
             \A c \in Cells : coord_neighbours'[c] = <<c>>
       /\ (vision.v = 0 /\ pc # "idle") =>
             /\ turtle_coords' = turtle_coords
             /\ \A a \in Agents :
                   (pc = "act" /\ IsCop(turn[1]) /\ active[a] /\ ~active'[a])
                       => turtle_coords[a] = turtle_coords[turn[1]]]_vars

\* a tick has run with vision 0 and movement enabled and left an agent active
C10_ActiveUnseen ==
    /\ vision.v = 0
    /\ Truthy(movement_enabled)
    /\ pc = "idle"
    /\ tick >= 1
    /\ \E a \in Agents : active[a]

\* the cops and the agents in the order setup created them
CopsInOrder == [k \in 1..Cardinality(Cops) |->
                   Cop(Cop_numCops - Cardinality(Cops) + k - 1)]
AgentsInOrder == [k \in 1..Cardinality(Agents) |->
                     Agent(Agent_num_agents - Cardinality(Agents) + k - 1)]

\* the random draws a setup received, read off the state it left: the
\* cell drawn for each turtle and the hardship and the risk aversion drawn
\* for each agent, in the order of creation (aggregate mode off)
DrawsOfSetup ==
    [cops |-> [k \in 1..Len(CopsInOrder) |-> turtle_coords[CopsInOrder[k]]],
     agents |-> [k \in 1..Len(AgentsInOrder) |->
                    <<turtle_coords[AgentsInOrder[k]],
                      perceived_hardship[AgentsInOrder[k]],
                      risk_aversion[AgentsInOrder[k]]>>]]

\* C11: a setup with the same parameters that receives the same draws as
\* the setup that made the present initial state, on the same engine,
\* makes an identical initial state: the same actors, identity included,
\* on the same cells with the same attributes.
C11_SetupDeterministic ==
    [][(/\ tick = 0 /\ go_calls = 0 /\ pc = "idle" /\ vision = AgainArgs[3]
        /\ Call(AgainArgs)
        /\ DrawsOfSetup' = DrawsOfSetup) =>
            /\ turtle_coords' = turtle_coords
            /\ coord_turtles' = coord_turtles
            /\ perceived_hardship' = perceived_hardship
            /\ risk_aversion' = risk_aversion
            /\ active' = active
            /\ jail_term' = jail_term]_vars

\* the cell is empty or holds only agents in jail
Qualifies(c) ==
    \A i \in 1..Len(coord_turtles[c]) :
        IsAgent(coord_turtles[c][i]) /\ jail_term[coord_turtles[c][i]] > 0

\* the actor may move under Rule M: a cop, or a free agent with movement
\* enabled
MayMove(t) ==
    IsCop(t) \/ (jail_term[t] = 0 /\ Truthy(movement_enabled))

\* C12: in a Rule M step the actor's own cell is not among the cells it can
\* be sent to; when the step relocates the actor, the actor may move and
\* the destination is a cell of the neighbour list of its cell that was
\* empty or held only jailed agents; when no neighbour cell qualifies, or
\* the actor may not move, both occupancy views are unchanged.
C12_RuleMDestination ==
    [][pc = "move" =>
          LET actor == turn[1]
              cell == turtle_coords[actor]
              dest == turtle_coords'[actor]
              open == {c \in Range(coord_neighbours[cell]) : Qualifies(c)}
          IN /\ MayMove(actor) => cell \notin open
             /\ dest # cell => (MayMove(actor) /\ dest \in open)
             /\ (open = {} \/ ~MayMove(actor)) =>
                   UNCHANGED <<coord_turtles, turtle_coords>>
             /\ \A t \in Turtles \ {actor} :
                   turtle_coords'[t] = turtle_coords[t]]_vars

\* the active agents among the occupants of the neighbour cells of the cell
SeenActive(cell) ==
    {a \in Agents : /\ active[a]
                    /\ \E c \in Range(coord_neighbours[cell]) :
                          a \in Range(coord_turtles[c])}

\* C13: in the Rule C step of a cop's turn, when an active agent is among
\* the occupants of the neighbour cells of the cop's cell, exactly one such
\* agent is arrested: the cop ends in its cell, the agent is inactive and
\* its jail term is a value of 0 .. max_jail_term - 1, and every other
\* actor keeps its cell, its active flag and its jail term; when there is
\* no such agent the step changes none of these.
C13_RuleCArrestsOne ==
    [][(pc = "act" /\ IsCop(turn[1])) =>
          LET cop == turn[1]
              seen == SeenActive(turtle_coords[cop])
          IN IF seen = {}
             THEN UNCHANGED <<coord_turtles, turtle_coords, active, jail_term>>
             ELSE \E a \in seen :
                    /\ turtle_coords'[cop] = turtle_coords[a]
                    /\ ~active'[a]
                    /\ jail_term'[a] \in 0..(max_jail_term.v - 1)
                    /\ \A t \in Turtles \ {cop} :
                          turtle_coords'[t] = turtle_coords[t]
                    /\ \A b \in Agents \ {a} :
                          /\ active'[b] = active[b]
                          /\ jail_term'[b] = jail_term[b]]_vars

\* C14: an agent in jail is never active; a jail term rises from 0 only in
\* the Rule C step of a cop and only for an agent that was active, and
\* never rises while positive; an agent turns active only in the Rule A
\* step of its own turn, while it is free, so after its term has reached 0
\* it is quiet until Rule A next evaluates it.
C14_AgentStateMachine ==
    [][/\ \A a \in DOMAIN jail_term' : jail_term'[a] > 0 => ~active'[a]
       /\ \A a \in DOMAIN jail_term \cap DOMAIN jail_term' :
             /\ jail_term'[a] > jail_term[a] =>
                   /\ jail_term[a] = 0
                   /\ active[a]
                   /\ pc = "act"
                   /\ IsCop(turn[1])
             /\ (~active[a] /\ active'[a]) =>
                   /\ pc = "act"
                   /\ turn[1] = a
                   /\ jail_term[a] = 0]_vars

\* the turn of an agent that is in jail
C14_JailedTurn ==
    /\ pc = "act"
    /\ IsAgent(turn[1])
    /\ jail_term[turn[1]] > 0

\* C15: Rule A never divides by zero: whenever it is the turn of a free
\* agent to be evaluated, an agent is among the occupants of the neighbour
\* cells of its cell (the agent itself, listed in its own cell), whatever
\* the vision and the mode; no call ends with ZeroDivisionError.
C15_AnAgentInSight ==
    /\ err # "ZeroDivisionError"
    /\ (pc = "act" /\ IsAgent(turn[1]) /\ jail_term[turn[1]] = 0) =>
          LET cell == turtle_coords[turn[1]]
          IN /\ cell \in Range(coord_neighbours[cell])
             /\ turn[1] \in Range(coord_turtles[cell])

\* a free agent is evaluated in aggregate mode with vision 0
C15_AloneInAggregate ==
    /\ pc = "act"
    /\ IsAgent(turn[1])
    /\ jail_term[turn[1]] = 0
    /\ aggregate_greivance
    /\ vision.v = 0

\* C16: the cell of an agent changes only in the Rule M step of its own
\* turn, while it is free and movement is enabled; the cell of a cop
\* changes only in the Rule M or Rule C step of its own turn; an agent in
\* jail keeps its cell, its active flag (false) and its hardship in every
\* step of the tick.
C16_OnlyEligibleRelocate ==
    [][\A t \in DOMAIN turtle_coords \cap DOMAIN turtle_coords' :
          /\ turtle_coords'[t] # turtle_coords[t] =>
                /\ pc \in {"move", "act"}
                /\ turn[1] = t
                /\ IsAgent(t) =>
                      /\ pc = "move"
                      /\ jail_term[t] = 0
                      /\ Truthy(movement_enabled)
          /\ (IsAgent(t) /\ jail_term[t] > 0) =>
                /\ turtle_coords'[t] = turtle_coords[t]
                /\ ~active[t] /\ ~active'[t]
                /\ perceived_hardship'[t] = perceived_hardship[t]]_vars

\* with movement disabled a tick is over that left an agent in jail
C16_AfterAStillTick ==
    /\ pc = "idle"
    /\ tick >= 1
    /\ ~Truthy(movement_enabled)
    /\ \E a \in Agents : jail_term[a] > 0

\* the occupants of the neighbour cells of the cell
Occupants(cell) ==
    {t \in Turtles : \E c \in Range(coord_neighbours[cell]) :
                        t \in Range(coord_turtles[c])}

\* the cops and the active agents among the occupants of the neighbour
\* cells of the cell
CopsSeen(cell) == Cardinality({t \in Occupants(cell) : IsCop(t)})
ActiveSeen(cell) ==
    Cardinality({t \in Occupants(cell) : IsAgent(t) /\ active[t]})

\* C17: in the Rule A step of a free agent, with c cops and a active agents
\* among the occupants of the neighbour cells of its present cell (own
\* cell and the agent itself included) the risk exponent is
\* floor(c / (1 + a)): the agent is active afterwards exactly when
\* grievance - risk aversion x risk exceeds 0.1, so with c < 1 + a exactly
\* when its grievance exceeds 0.1; the grievance is hardship x
\* (1 - legitimacy), the agent's own in standard mode and the mean over
\* the agents seen in aggregate mode.
C17_RuleADecision ==
    [][(pc = "act" /\ IsAgent(turn[1]) /\ jail_term[turn[1]] = 0
        /\ err' = "none") =>
          LET me == turn[1]
              cell == turtle_coords[me]
              c == CopsSeen(cell)
              a == ActiveSeen(cell)
              risk == estimated_arrest_probability(c \div (1 + a))
              seen == {t \in Occupants(cell) : IsAgent(t)}
              own == perceived_hardship'[me] * (100 - government_legitimacy.v)
              all == [t \in seen |->
                         perceived_hardship'[t] * (100 - government_legitimacy.v)]
              mean == SumSeq([i \in 1..Len(SelectSeq(neighbours(cell), IsAgent)) |->
                                 all[SelectSeq(neighbours(cell), IsAgent)[i]]])
                          \div Cardinality(seen)
              g == IF aggregate_greivance THEN mean ELSE own
          IN /\ active'[me] <=>
                    (g * 100 - risk_aversion[me] * risk > THRESHOLD * 10000)
             /\ c < 1 + a => (active'[me] <=> g > THRESHOLD * 100)]_vars

\* the turn of a free, risk-averse agent that is still active from the tick
\* before and has a cop among the occupants of its neighbour cells
C17_CountsItself ==
    /\ pc = "act"
    /\ IsAgent(turn[1])
    /\ jail_term[turn[1]] = 0
    /\ active[turn[1]]
    /\ risk_aversion[turn[1]] > 0
    /\ CopsSeen(turtle_coords[turn[1]]) = 1
    /\ ActiveSeen(turtle_coords[turn[1]]) = 1

\* the wrap-aware distance between two cells of the grid, squared
Wrapped(a, b) ==
    LET dr == Abs(a[1] - b[1])
        dc == Abs(a[2] - b[2])
    IN Min(dr, num_rows - dr) * Min(dr, num_rows - dr)
         + Min(dc, num_cols - dc) * Min(dc, num_cols - dc)

\* C18: after every step the neighbour list of a cell holds exactly the
\* cells within the wrap-aware distance vision of it, each once and the
\* cell itself among them, and no step of go and no update call changes
\* the index.
C18_NeighboursExact ==
    [][/\ vision' # Unset =>
            \A a \in Cells' :
                /\ a \in Range(coord_neighbours'[a])
                /\ Cardinality(Range(coord_neighbours'[a]))
                      = Len(coord_neighbours'[a])
                /\ \A b \in Cells' :
                      b \in Range(coord_neighbours'[a])
                          <=> 100 * Wrapped(a, b)' <= vision'.v * vision'.v
       /\ (pc # "idle" \/ go_calls' > go_calls \/ UpdateTopology)
              => UNCHANGED coord_neighbours]_vars

\* a tick is over on a grid of 4 x 4 cells where a cell sees its diagonal
\* neighbour across both edges and not the cell two rows away
C18_AcrossTheCorner ==
    /\ num_rows = 4
    /\ num_cols = 4
    /\ vision # Unset
    /\ vision.v = 15
    /\ tick = 1
    /\ pc = "idle"
    /\ <<3, 3>> \in Range(coord_neighbours[<<0, 0>>])
    /\ <<2, 0>> \notin Range(coord_neighbours[<<0, 0>>])

\* the (actor, coordinate) pairs of the tick's order whose turn is still
\* to come
TurnsLeft ==
    IF pc = "act" THEN Tail(shuffled_turtle_coords) ELSE shuffled_turtle_coords

\* C19: a go call orders the actors in one permutation and gives each its
\* turn: the order drawn at the start of the tick lists every actor once,
\* no turn is left when the call is over, an actor's cell changes only in
\* its own turn, and the coordinate of the snapshot handed to Rule M is the
\* actor's cell when its turn begins.
C19_OneTurnEach ==
    [][/\ go_calls' > go_calls =>
            /\ Len(shuffled_turtle_coords') = Cardinality(Turtles)
            /\ {p[1] : p \in Range(shuffled_turtle_coords')} = Turtles
       /\ pc' = "move" =>
            Head(shuffled_turtle_coords')[2]
                = turtle_coords'[Head(shuffled_turtle_coords')[1]]
       /\ \A t \in Turtles \cap Turtles' :
            turtle_coords'[t] # turtle_coords[t] =>
                (pc \in {"move", "act"} /\ turn[1] = t)
       /\ (go_calls' > 0 /\ (pc' = "idle" \/ err' # "none")) =>
            TurnsLeft' = <<>>]_vars

\* C20: with every accepted configuration, max_jail_term 0 included, no go
\* call stops part-way: no exception is raised inside go, and a tick in
\* which a cop made an arrest is never left without its tick increment and
\* its record.
C20_GoRunsToCompletion ==
    vision # Unset =>
        /\ pc \in {"move", "act", "end"} => err = "none"
        /\ (arresting # {} /\ err # "none") =>
              (tick = go_calls /\ Len(report) = go_calls + 1)

====
